---------------------------- MODULE Spec2Model ----------------------------
(***************************************************************************)
(* A model of developing-with-streamlit/templates/themes/manage.py, the    *)
(* theme-sync tool: `sync` regenerates one directory per _configs/*.toml,  *)
(* `check` compares the generated files with their expected content, `new` *)
(* scaffolds a config.                                                     *)
(*                                                                         *)
(* Text is a sequence of atoms (one-character strings and a few longer     *)
(* units such as "{{title}}" or "\n"); a file or directory name is a       *)
(* sequence of atoms too, and a path is a sequence of names below ROOT.    *)
(* The file tree is the pair (dirs, files): the set of directory paths and *)
(* a function from file paths to the text read_text() returns for them.    *)
(***************************************************************************)
EXTENDS Integers, Sequences, FiniteSets, TLC

VARIABLES
    dirs,    \* the directories that exist, as paths below ROOT
    files,   \* the files that exist: path |-> text
    last,    \* what the last run of manage.py did: command, exit, output
    input,   \* the argument of a function applied on its own
    output   \* and its result

vars == <<dirs, files, last, input, output>>

(***************************************************************************)
(* Strings                                                                 *)
(***************************************************************************)

\* The characters names are written in, in code point order.
Ascii ==
    << " ", "-", ".", "1", "2",
       "A", "B", "C", "D", "E", "F", "G", "H", "I", "J", "K", "L", "M",
       "N", "O", "P", "Q", "R", "S", "T", "U", "V", "W", "X", "Y", "Z",
       "_",
       "a", "b", "c", "d", "e", "f", "g", "h", "i", "j", "k", "l", "m",
       "n", "o", "p", "q", "r", "s", "t", "u", "v", "w", "x", "y", "z" >>

Lowers == SubSeq(Ascii, 33, 58)
Uppers == SubSeq(Ascii, 6, 31)

\* ord(c), up to an order-preserving renumbering; atoms outside Ascii sort last.
Ord(c) ==
    IF \E i \in 1..Len(Ascii) : Ascii[i] = c
    THEN CHOOSE i \in 1..Len(Ascii) : Ascii[i] = c
    ELSE Len(Ascii) + 1

\* str.upper() and str.lower() on one character.
Upper(c) ==
    IF \E i \in 1..26 : Lowers[i] = c
    THEN Uppers[CHOOSE i \in 1..26 : Lowers[i] = c]
    ELSE c

Lower(c) ==
    IF \E i \in 1..26 : Uppers[i] = c
    THEN Lowers[CHOOSE i \in 1..26 : Uppers[i] = c]
    ELSE c

\* s < t for two strings, as Python compares them (and as sorted() orders
\* sibling paths): by the first differing character, a proper prefix first.
RECURSIVE StrLess(_, _)
StrLess(s, t) ==
    IF t = <<>> THEN FALSE
    ELSE IF s = <<>> THEN TRUE
    ELSE IF Head(s) = Head(t) THEN StrLess(Tail(s), Tail(t))
    ELSE Ord(Head(s)) < Ord(Head(t))

\* sorted(S) for a finite set of strings.
RECURSIVE Sorted(_)
Sorted(S) ==
    IF S = {} THEN <<>>
    ELSE LET m == CHOOSE x \in S : \A y \in S \ {x} : StrLess(x, y)
         IN  <<m>> \o Sorted(S \ {m})

StartsWith(s, p) == Len(s) >= Len(p) /\ SubSeq(s, 1, Len(p)) = p
EndsWith(s, p) == Len(s) >= Len(p) /\ SubSeq(s, Len(s) - Len(p) + 1, Len(s)) = p

\* text.replace(atom, value): every occurrence of the one-atom placeholder
\* replaced by the value's characters.
RECURSIVE Replace(_, _, _)
Replace(text, atom, value) ==
    IF text = <<>> THEN <<>>
    ELSE (IF Head(text) = atom THEN value ELSE <<Head(text)>>)
         \o Replace(Tail(text), atom, value)

\* s.split(sep) for a one-atom separator: the pieces between separators,
\* empty pieces included, always at least one piece.
RECURSIVE Split(_, _)
Split(s, sep) ==
    IF \A i \in 1..Len(s) : s[i] # sep THEN <<s>>
    ELSE LET k == CHOOSE i \in 1..Len(s) :
                      s[i] = sep /\ \A j \in 1..(i - 1) : s[j] # sep
         IN  <<SubSeq(s, 1, k - 1)>> \o Split(SubSeq(s, k + 1, Len(s)), sep)

\* sep.join(pieces)
RECURSIVE Join(_, _)
Join(pieces, sep) ==
    IF pieces = <<>> THEN <<>>
    ELSE IF Len(pieces) = 1 THEN pieces[1]
    ELSE pieces[1] \o sep \o Join(Tail(pieces), sep)

\* str.strip() and str.lower() of a whole string.
RECURSIVE LStrip(_)
LStrip(s) ==
    IF s # <<>> /\ Head(s) \in {" ", "\n", "\t"} THEN LStrip(Tail(s)) ELSE s

RECURSIVE RStrip(_)
RStrip(s) ==
    IF s # <<>> /\ s[Len(s)] \in {" ", "\n", "\t"}
    THEN RStrip(SubSeq(s, 1, Len(s) - 1)) ELSE s

Strip(s) == RStrip(LStrip(s))

LowerStr(s) == [i \in 1..Len(s) |-> Lower(s[i])]

\* A capitalize that leaves the rest of the word as written; C7 tells it from
\* str.capitalize().
Capitalize_KeepingRest(w) ==
    [i \in 1..Len(w) |-> IF i = 1 THEN Upper(w[i]) ELSE w[i]]

\* str.capitalize(): the first character upper case, the rest lower case.
Capitalize(w) ==
    [i \in 1..Len(w) |-> IF i = 1 THEN Upper(w[i]) ELSE Lower(w[i])]


(***************************************************************************)
(* Names and paths                                                         *)
(***************************************************************************)

N_shared    == <<"_", "s", "h", "a", "r", "e", "d">>
N_templates == <<"_", "t", "e", "m", "p", "l", "a", "t", "e", "s">>
N_configs   == <<"_", "c", "o", "n", "f", "i", "g", "s">>
N_fonts     == <<"f", "o", "n", "t", "s">>
N_static    == <<"s", "t", "a", "t", "i", "c">>
N_dot_streamlit == <<".", "s", "t", "r", "e", "a", "m", "l", "i", "t">>
N_config_toml   == <<"c", "o", "n", "f", "i", "g", ".", "t", "o", "m", "l">>
N_app_py        == <<"s", "t", "r", "e", "a", "m", "l", "i", "t", "_", "a", "p", "p", ".", "p", "y">>
N_pyproject     == <<"p", "y", "p", "r", "o", "j", "e", "c", "t", ".", "t", "o", "m", "l">>
N_snowflake     == <<"s", "n", "o", "w", "f", "l", "a", "k", "e", ".", "y", "m", "l">>
N_pyproject_tmpl == N_pyproject \o <<".", "t", "m", "p", "l">>
N_snowflake_tmpl == N_snowflake \o <<".", "t", "m", "p", "l">>
N_gitattributes == <<".", "g", "i", "t", "a", "t", "t", "r", "i", "b", "u", "t", "e", "s">>
DotToml == <<".", "t", "o", "m", "l">>

ROOT      == <<>>
SHARED    == ROOT \o <<N_shared>>
TEMPLATES == ROOT \o <<N_templates>>
CONFIGS   == ROOT \o <<N_configs>>
FONTS     == SHARED \o <<N_fonts>>

Parent(p) == SubSeq(p, 1, Len(p) - 1)
Name(p) == p[Len(p)]

\* Path.stem: the name without its last suffix; a name that starts with its
\* only dot, or ends with a dot, has no suffix.
Stem(name) ==
    LET dots == {i \in 1..Len(name) : name[i] = "."}
    IN  IF dots = {} THEN name
        ELSE LET i == CHOOSE k \in dots : \A j \in dots : j <= k
             IN  IF i > 1 /\ i < Len(name) THEN SubSeq(name, 1, i - 1) ELSE name

(***************************************************************************)
(* The file tree, and a run of the script over it.  A run is a record m:   *)
(* the tree (m.dirs, m.files), what it printed (m.out, m.err), and m.st =  *)
(* "run" while it executes, "exit1" after sys.exit(1), "raise" after an    *)
(* uncaught exception (OSError, SyntaxError).  Every step is the identity  *)
(* once the run has stopped.                                               *)
(***************************************************************************)

\* The value of an expression whose evaluation raised.
Raised == <<"<exception>">>

Exists(m, p) == p \in m.dirs \/ p \in DOMAIN m.files
IsDir(m, p) == p \in m.dirs
IsFile(m, p) == p \in DOMAIN m.files

\* Path.read_text(): FileNotFoundError, IsADirectoryError when p is no file.
ReadText(m, p) == IF IsFile(m, p) THEN m.files[p] ELSE Raised

Stop(m, how) == [m EXCEPT !.st = how]

\* Path.mkdir(exist_ok=True): FileExistsError when p is a file,
\* FileNotFoundError when the parent is missing.
Mkdir(m, p) ==
    IF m.st # "run" THEN m
    ELSE IF IsDir(m, p) THEN m
    ELSE IF IsFile(m, p) \/ ~IsDir(m, Parent(p)) THEN Stop(m, "raise")
    ELSE [m EXCEPT !.dirs = @ \cup {p}]

\* Path.write_text(text): the argument is evaluated first; the file is
\* created or replaced; IsADirectoryError, FileNotFoundError otherwise.
WriteText(m, p, text) ==
    IF m.st # "run" THEN m
    ELSE IF text = Raised \/ IsDir(m, p) \/ ~IsDir(m, Parent(p))
         THEN Stop(m, "raise")
    ELSE [m EXCEPT !.files =
              [q \in (DOMAIN @) \cup {p} |-> IF q = p THEN text ELSE @[q]]]

\* shutil.copy2(src, dst) of a file onto a file path.
Copy2(m, src, dst) ==
    IF m.st # "run" THEN m
    ELSE WriteText(m, dst, ReadText(m, src))

\* shutil.rmtree(d): d and everything below it.
Under(p, d) == Len(p) >= Len(d) /\ SubSeq(p, 1, Len(d)) = d

Rmtree(m, d) ==
    IF m.st # "run" THEN m
    ELSE IF ~IsDir(m, d) THEN Stop(m, "raise")
    ELSE [m EXCEPT
             !.dirs = {p \in @ : ~Under(p, d)},
             !.files = [q \in {p \in DOMAIN @ : ~Under(p, d)} |-> @[q]]]

\* print(line) and print(line, file=sys.stderr)
Say(m, line) == IF m.st # "run" THEN m ELSE [m EXCEPT !.out = Append(@, line)]
Warn(m, line) == IF m.st # "run" THEN m ELSE [m EXCEPT !.err = Append(@, line)]

\* Path.iterdir(): the names directly inside directory d.
Children(m, d) ==
    {Name(p) : p \in {q \in m.dirs \cup DOMAIN m.files :
                          Len(q) = Len(d) + 1 /\ Parent(q) = d}}

(***************************************************************************)
(* Theme discovery                                                         *)
(***************************************************************************)

TITLE_OVERRIDES ==
    [s \in {<<"g", "i", "t", "h", "u", "b">>} |-> <<"G", "i", "t", "H", "u", "b">>]

CapitalizeAll(words) == [i \in 1..Len(words) |-> Capitalize(words[i])]

slug_to_title(slug) ==
    IF slug \in DOMAIN TITLE_OVERRIDES
    THEN TITLE_OVERRIDES[slug]
    ELSE Join(CapitalizeAll(Split(slug, "-")), <<" ">>)

\* CONFIGS.glob("*.toml"): the entries of _configs whose name ends in .toml.
GlobToml(m) == {n \in Children(m, CONFIGS) : EndsWith(n, DotToml)}

Themes(names) ==
    [i \in 1..Len(names) |->
        [slug |-> Stem(names[i]), title |-> slug_to_title(Stem(names[i]))]]

\* A discovery ordered by slug instead of by path; C6 tells it from
\* discover_themes.
discover_themes_BySlug(m) ==
    Themes([i \in 1..Cardinality(GlobToml(m)) |->
               Sorted({Stem(n) : n \in GlobToml(m)})[i] \o DotToml])

discover_themes(m) == Themes(Sorted(GlobToml(m)))

(***************************************************************************)
(* Font discovery from config content                                      *)
(***************************************************************************)

Blank == {" ", "\n", "\t"}
Quotes == {"\"", "'"}
FontExts == {"ttf", "otf", "woff", "woff2"}

RECURSIVE SkipBlank(_, _)
SkipBlank(t, i) ==
    IF i <= Len(t) /\ t[i] \in Blank THEN SkipBlank(t, i + 1) ELSE i

\* One match of
\*   url\s*=\s*["']app/static/([^"']+\.(?:ttf|otf|woff2?))["']
\* starting at atom i: 0 when there is none, else the index of the closing
\* quote.
FontMatchEnd(t, i) ==
    IF ~(i <= Len(t) /\ t[i] = "url") THEN 0
    ELSE LET j == SkipBlank(t, i + 1)
         IN  IF ~(j <= Len(t) /\ t[j] = "=") THEN 0
             ELSE LET k == SkipBlank(t, j + 1)
                      closing == {q \in (k + 2)..Len(t) : t[q] \in Quotes}
                  IN  IF ~(k + 1 <= Len(t) /\ t[k] \in Quotes
                           /\ t[k + 1] = "app/static/" /\ closing # {})
                      THEN 0
                      ELSE LET q == CHOOSE x \in closing : \A y \in closing : x <= y
                           IN  IF q - 3 >= k + 2 /\ t[q - 1] \in FontExts
                                  /\ t[q - 2] = "."
                               THEN q ELSE 0

FontNameAt(t, i) ==
    LET q == FontMatchEnd(t, i)
        open == CHOOSE k \in i..q : t[k] = "app/static/"
    IN  SubSeq(t, open + 1, q - 1)

\* re.findall: the captured names of the matches, left to right.
RECURSIVE FindFonts(_, _)
FindFonts(t, i) ==
    IF i > Len(t) THEN <<>>
    ELSE IF FontMatchEnd(t, i) # 0
         THEN <<FontNameAt(t, i)>> \o FindFonts(t, FontMatchEnd(t, i) + 1)
         ELSE FindFonts(t, i + 1)

discover_fonts(config_text) == FindFonts(config_text, 1)

(***************************************************************************)
(* Content builders                                                        *)
(***************************************************************************)

MANAGED_HEADER_PY ==
    <<"# DO NOT EDIT - managed by manage.py, edit _shared/streamlit_app.py instead",
      "\n">>

MANAGED_HEADER_TOML ==
    <<"# DO NOT EDIT - managed by manage.py, edit _configs/", "{slug}",
      ".toml instead", "\n">>

TripleQuote == "\"\"\""
CommentAtoms == {"#", MANAGED_HEADER_PY[1]}

\* ast.parse over the atoms of a module body, from atom i on.  mode is where
\* the scan stands on its line: "start" (nothing yet), "indent" (blanks
\* only), "code" (in a statement), "str" (in a triple-quoted string), "after"
\* (behind a closed one), "comment".  first is the kind of the first
\* statement, d whether the string being read belongs to it, doc the line
\* on which that string closed last.  The statements of the sources
\* modelled hold no triple-quoted string, no continuation and no ';', so a
\* triple quote behind code, code behind a string, and an indented
\* statement are each a SyntaxError.  The result is -1 for a SyntaxError,
\* else doc.
RECURSIVE ScanBody(_, _, _, _, _, _, _)
ScanBody(body, i, mode, line, first, d, doc) ==
    IF i > Len(body) THEN (IF mode = "str" THEN -1 ELSE doc)
    ELSE IF mode = "str"
         THEN IF body[i] = TripleQuote
              THEN ScanBody(body, i + 1, "after", line, first, d,
                            IF d THEN line ELSE doc)
              ELSE ScanBody(body, i + 1, "str",
                            IF body[i] = "\n" THEN line + 1 ELSE line, first, d, doc)
    ELSE IF body[i] = "\n"
         THEN ScanBody(body, i + 1, "start", line + 1, first, FALSE, doc)
    ELSE IF mode = "comment" \/ body[i] \in CommentAtoms
         THEN ScanBody(body, i + 1, "comment", line, first, d, doc)
    ELSE IF body[i] = " " /\ mode \in {"start", "indent"}
         THEN ScanBody(body, i + 1, "indent", line, first, d, doc)
    ELSE IF body[i] = " " /\ mode = "after"
         THEN ScanBody(body, i + 1, "after", line, first, d, doc)
    ELSE IF body[i] = TripleQuote
         THEN IF mode = "start"
              THEN ScanBody(body, i + 1, "str", line,
                            IF first = "none" THEN "string" ELSE first,
                            first = "none", doc)
              ELSE IF mode = "after"
                   THEN ScanBody(body, i + 1, "str", line, first, d, doc)
                   ELSE -1
    ELSE IF mode = "start"
         THEN ScanBody(body, i + 1, "code", line,
                       IF first = "none" THEN "other" ELSE first, FALSE, doc)
    ELSE IF mode = "code"
         THEN ScanBody(body, i + 1, "code", line, first, d, doc)
    ELSE -1

\* What ast.parse and ast.get_docstring find in a module body: -1 for a
\* SyntaxError, 0 for no docstring, else end_lineno of the docstring, the
\* first statement.
DocstringEnd(body) == ScanBody(body, 1, "start", 1, "none", FALSE, 0)

\* A header always put in front of the body; C13 tells it from InsertHeader.
InsertHeader_InFront(body, end_line) ==
    IF body = Raised \/ end_line = -1 THEN Raised ELSE MANAGED_HEADER_PY \o body

\* The managed header put after line end_line of the body, or in front.
InsertHeader(body, end_line) ==
    IF body = Raised \/ end_line = -1 THEN Raised
    ELSE IF end_line > 0
         THEN Join(SubSeq(Split(body, "\n"), 1, end_line), <<"\n">>) \o <<"\n">>
              \o MANAGED_HEADER_PY
              \o Join(SubSeq(Split(body, "\n"), end_line + 1, Len(Split(body, "\n"))),
                      <<"\n">>)
         ELSE MANAGED_HEADER_PY \o body

AppBody(source, title) ==
    IF source = Raised THEN Raised ELSE Replace(source, "{{title}}", title)

HeaderAfterDocstring(body) ==
    InsertHeader(body, IF body = Raised THEN -1 ELSE DocstringEnd(body))

expected_app(m, title) ==
    HeaderAfterDocstring(AppBody(ReadText(m, SHARED \o <<N_app_py>>), title))

expected_config(m, slug) ==
    LET source == ReadText(m, CONFIGS \o <<slug \o DotToml>>)
        header == Replace(MANAGED_HEADER_TOML, "{slug}", slug)
    IN  IF source = Raised THEN Raised ELSE header \o source

\* replacements: a sequence of <<placeholder, value>>, in the dict's order.
RECURSIVE ReplaceAll(_, _)
ReplaceAll(text, replacements) ==
    IF replacements = <<>> THEN text
    ELSE ReplaceAll(Replace(text, Head(replacements)[1], Head(replacements)[2]),
                    Tail(replacements))

expected_from_template(m, tmpl_path, replacements) ==
    LET text == ReadText(m, tmpl_path)
    IN  IF text = Raised THEN Raised ELSE ReplaceAll(text, replacements)

(***************************************************************************)
(* Sync                                                                    *)
(***************************************************************************)

Identifier(slug) == Replace(slug, "-", <<"_">>)

ConfigPath(slug) == CONFIGS \o <<slug \o DotToml>>

\* The four generated files of a theme directory.
ConfigFile(slug)    == ROOT \o <<slug, N_dot_streamlit, N_config_toml>>
AppFile(slug)       == ROOT \o <<slug, N_app_py>>
PyprojectFile(slug) == ROOT \o <<slug, N_pyproject>>
SnowflakeFile(slug) == ROOT \o <<slug, N_snowflake>>
StaticDir(slug)     == ROOT \o <<slug, N_static>>

expected_pyproject(m, theme) ==
    expected_from_template(m, TEMPLATES \o <<N_pyproject_tmpl>>,
        << <<"{{slug}}", theme.slug>>, <<"{{title}}", theme.title>> >>)

expected_snowflake(m, theme) ==
    expected_from_template(m, TEMPLATES \o <<N_snowflake_tmpl>>,
        << <<"{{slug}}", theme.slug>>, <<"{{title}}", theme.title>>,
           <<"{{identifier}}", Identifier(theme.slug)>> >>)

FontWarning(slug, fname) ==
    <<"  Warning: font ">> \o fname \o <<" referenced in _configs/">> \o slug
        \o <<".toml not found in _shared/fonts/">>

\* A loop that stops at the first font it does not find; C14 tells it from
\* CopyFonts.
CopyFonts_StoppingAtMissing(m, slug, font_names) ==
    IF font_names = <<>> \/ m.st # "run" THEN m
    ELSE IF ~Exists(m, FONTS \o <<Head(font_names)>>)
         THEN Warn(m, FontWarning(slug, Head(font_names)))
         ELSE Copy2(m, FONTS \o <<Head(font_names)>>,
                    StaticDir(slug) \o <<Head(font_names)>>)

\* The loop over font_names of sync_theme.
RECURSIVE CopyFonts(_, _, _)
CopyFonts(m, slug, font_names) ==
    IF font_names = <<>> \/ m.st # "run" THEN m
    ELSE LET fname == Head(font_names)
             src == FONTS \o <<fname>>
         IN  CopyFonts(
                 IF ~Exists(m, src)
                 THEN Warn(m, FontWarning(slug, fname))
                 ELSE Copy2(m, src, StaticDir(slug) \o <<fname>>),
                 slug, Tail(font_names))

MakeDirs(m, slug) ==
    Mkdir(Mkdir(Mkdir(m, ROOT \o <<slug>>), ROOT \o <<slug, N_dot_streamlit>>),
          StaticDir(slug))

WriteConfig(m, slug) == WriteText(m, ConfigFile(slug), expected_config(m, slug))
WriteApp(m, theme) == WriteText(m, AppFile(theme.slug), expected_app(m, theme.title))
WritePyproject(m, theme) ==
    WriteText(m, PyprojectFile(theme.slug), expected_pyproject(m, theme))
WriteSnowflake(m, theme) ==
    WriteText(m, SnowflakeFile(theme.slug), expected_snowflake(m, theme))

SyncFonts(m, slug) ==
    IF m.st # "run" THEN m
    ELSE IF ReadText(m, ConfigPath(slug)) = Raised THEN Stop(m, "raise")
    ELSE CopyFonts(m, slug, discover_fonts(ReadText(m, ConfigPath(slug))))

sync_theme(m, theme) ==
    SyncFonts(
        WriteSnowflake(
            WritePyproject(
                WriteApp(WriteConfig(MakeDirs(m, theme.slug), theme.slug), theme),
                theme),
            theme),
        theme.slug)

GITATTR_START == "# BEGIN managed by manage.py"
GITATTR_END == "# END managed by manage.py"

NewSection ==
    Join(<< <<GITATTR_START>>,
            <<"*/.streamlit/config.toml linguist-generated">>,
            <<"*/streamlit_app.py linguist-generated">>,
            <<"*/pyproject.toml linguist-generated">>,
            <<"*/snowflake.yml linguist-generated">>,
            <<"*/static/*.ttf linguist-generated">>,
            <<GITATTR_END>> >>, <<"\n">>)

\* str.index(atom): the first position of the atom, 0 for ValueError.
Index(text, atom) ==
    LET at == {i \in 1..Len(text) : text[i] = atom}
    IN  IF at = {} THEN 0 ELSE CHOOSE i \in at : \A j \in at : i <= j

update_gitattributes(m) ==
    LET gitattr_path == ROOT \o <<N_gitattributes>>
        content == ReadText(m, gitattr_path)
        start == Index(content, GITATTR_START)
        end == Index(content, GITATTR_END)
    IN  IF m.st # "run" THEN m
        ELSE IF ~Exists(m, gitattr_path)
             THEN WriteText(m, gitattr_path, NewSection \o <<"\n">>)
        ELSE IF content = Raised THEN Stop(m, "raise")
        ELSE IF start # 0
             THEN IF end = 0 THEN Stop(m, "raise")
                  ELSE WriteText(m, gitattr_path,
                           SubSeq(content, 1, start - 1) \o NewSection
                               \o SubSeq(content, end + 1, Len(content)))
        ELSE WriteText(m, gitattr_path,
                 RStrip(content) \o <<"\n", "\n">> \o NewSection \o <<"\n">>)

\* for t in themes: sync_theme(t); print(...)
RECURSIVE SyncThemes(_, _)
SyncThemes(m, themes) ==
    IF themes = <<>> \/ m.st # "run" THEN m
    ELSE SyncThemes(
             Say(sync_theme(m, Head(themes)),
                 <<"  Synced ">> \o Head(themes).slug \o <<"/">>),
             Tail(themes))

Slugs(themes) == {themes[i].slug : i \in 1..Len(themes)}

\* An orphan test without the leading-underscore exclusion; C10 tells it from
\* Orphans.
Orphans_WithUnderscore(m, themes) ==
    Sorted({d \in Children(m, ROOT) :
               /\ IsDir(m, ROOT \o <<d>>)
               /\ d \notin Slugs(themes)})

\* The directories cmd_sync lists as orphaned, in iteration order.
Orphans(m, themes) ==
    Sorted({d \in Children(m, ROOT) :
               /\ IsDir(m, ROOT \o <<d>>)
               /\ ~StartsWith(d, <<"_">>)
               /\ d \notin Slugs(themes)})

RECURSIVE SayEach(_, _, _, _)
SayEach(m, before, names, after) ==
    IF names = <<>> THEN m
    ELSE SayEach(Say(m, before \o Head(names) \o after), before, Tail(names), after)

RECURSIVE RemoveOrphans(_, _)
RemoveOrphans(m, orphans) ==
    IF orphans = <<>> \/ m.st # "run" THEN m
    ELSE RemoveOrphans(
             Say(Rmtree(m, ROOT \o <<Head(orphans)>>),
                 <<"  Removed ">> \o Head(orphans) \o <<"/">>),
             Tail(orphans))

OrphanHeading == <<"\n", "Orphaned directories (no matching config):">>
OrphanPrompt == <<"Remove these directories? [y/N] ">>
OrphanSkipped == <<"  Skipped orphan removal.">>

\* A confirmation that accepts every answer beginning with y; C9 tells it
\* from Confirms.
Confirms_AnyYes(answer) ==
    LowerStr(Strip(answer)) # <<>> /\ Head(LowerStr(Strip(answer))) = "y"

\* Whether the answer typed at the prompt confirms the removal.
Confirms(answer) == LowerStr(Strip(answer)) = <<"y">>

\* str(n) for the small counts printed.
NumStr(n) == <<"0", "1", "2", "3", "4", "5", "6", "7", "8", "9">>[n + 1]

SyncedLine(n) == <<"\n", "Synced ", NumStr(n), " theme directories.">>

\* The listing of the orphans and the prompt.
AskOrphans(m, orphans) ==
    Say(SayEach(Say(m, OrphanHeading), <<"  ">>, orphans, <<"/">>), OrphanPrompt)

AnswerOrphans(m, orphans, answer) ==
    IF Confirms(answer) THEN RemoveOrphans(m, orphans) ELSE Say(m, OrphanSkipped)

HandleOrphans(m, orphans, answer) ==
    IF orphans = <<>> \/ m.st # "run" THEN m
    ELSE AnswerOrphans(AskOrphans(m, orphans), orphans, answer)

OrphanStep(m, themes, answer) ==
    IF m.st # "run" THEN m ELSE HandleOrphans(m, Orphans(m, themes), answer)

SyncWith(m, themes, answer) ==
    Say(update_gitattributes(OrphanStep(SyncThemes(m, themes), themes, answer)),
        SyncedLine(Len(themes)))

\* cmd_sync; `answer` is the line input() returns if the prompt is shown.
cmd_sync(m, answer) == SyncWith(m, discover_themes(m), answer)

(***************************************************************************)
(* Check                                                                   *)
(***************************************************************************)

\* A comparison that looks only at whether the target exists; C3 tells it
\* from CheckFile.
CheckFile_ExistenceOnly(c, target, expected, label, first) ==
    IF c.m.st # "run" THEN c
    ELSE IF ~Exists(c.m, target) THEN [c EXCEPT !.missing = Append(@, label)]
    ELSE c

\* One generated file of cmd_check, on c = [m, missing, drifted].  With
\* `first` the expected content is built before the target is looked at (as
\* for config.toml, pyproject.toml and snowflake.yml); without, only once the
\* target exists and has been read (streamlit_app.py).
CheckFile(c, target, expected, label, first) ==
    IF c.m.st # "run" THEN c
    ELSE IF first /\ expected = Raised THEN [c EXCEPT !.m = Stop(@, "raise")]
    ELSE IF ~Exists(c.m, target) THEN [c EXCEPT !.missing = Append(@, label)]
    ELSE IF ReadText(c.m, target) = Raised \/ expected = Raised
         THEN [c EXCEPT !.m = Stop(@, "raise")]
    ELSE IF ReadText(c.m, target) # expected
         THEN [c EXCEPT !.drifted = Append(@, label)]
    ELSE c

\* The loop over font_names of cmd_check.
RECURSIVE CheckFonts(_, _, _)
CheckFonts(c, slug, font_names) ==
    IF font_names = <<>> \/ c.m.st # "run" THEN c
    ELSE LET fname == Head(font_names)
             src == FONTS \o <<fname>>
             dest == StaticDir(slug) \o <<fname>>
             label == slug \o <<"/static/">> \o fname
         IN  CheckFonts(
                 IF ~Exists(c.m, dest)
                 THEN [c EXCEPT !.missing = Append(@, label)]
                 ELSE IF ~Exists(c.m, src) THEN c
                 ELSE IF ReadText(c.m, src) = Raised \/ ReadText(c.m, dest) = Raised
                      THEN [c EXCEPT !.m = Stop(@, "raise")]
                 ELSE IF ReadText(c.m, src) # ReadText(c.m, dest)
                      THEN [c EXCEPT !.drifted = Append(@, label)]
                 ELSE c,
                 slug, Tail(font_names))

CheckConfig(c, slug) ==
    CheckFile(c, ConfigFile(slug), expected_config(c.m, slug),
              slug \o <<"/.streamlit/config.toml">>, TRUE)
CheckApp(c, theme) ==
    CheckFile(c, AppFile(theme.slug), expected_app(c.m, theme.title),
              theme.slug \o <<"/streamlit_app.py">>, FALSE)
CheckPyproject(c, theme) ==
    CheckFile(c, PyprojectFile(theme.slug), expected_pyproject(c.m, theme),
              theme.slug \o <<"/pyproject.toml">>, TRUE)
CheckSnowflake(c, theme) ==
    CheckFile(c, SnowflakeFile(theme.slug), expected_snowflake(c.m, theme),
              theme.slug \o <<"/snowflake.yml">>, TRUE)

CheckThemeFonts(c, slug) ==
    IF c.m.st # "run" THEN c
    ELSE IF ReadText(c.m, ConfigPath(slug)) = Raised
         THEN [c EXCEPT !.m = Stop(@, "raise")]
    ELSE CheckFonts(c, slug, discover_fonts(ReadText(c.m, ConfigPath(slug))))

check_theme(c, theme) ==
    CheckThemeFonts(
        CheckSnowflake(
            CheckPyproject(CheckApp(CheckConfig(c, theme.slug), theme), theme),
            theme),
        theme.slug)

RECURSIVE CheckThemes(_, _)
CheckThemes(c, themes) ==
    IF themes = <<>> \/ c.m.st # "run" THEN c
    ELSE CheckThemes(check_theme(c, Head(themes)), Tail(themes))

\* The two lists cmd_check builds before it reports.
Findings(m) ==
    CheckThemes([m |-> m, missing |-> <<>>, drifted |-> <<>>], discover_themes(m))

MissingHeading == <<"Missing files (run 'python manage.py sync' to fix):">>
DriftedHeading == <<"Drifted files (run 'python manage.py sync' to fix):">>
InSyncLine(n) ==
    <<"All generated files in sync across ", NumStr(n), " theme directories.">>

Report(m, heading, list) ==
    IF list = <<>> THEN m ELSE SayEach(Say(m, heading), <<"  ">>, list, <<>>)

\* The report of the two lists and the exit.
Conclude(m, ok, n) ==
    IF m.st # "run" THEN m
    ELSE IF ok THEN Say(m, InSyncLine(n))
    ELSE Stop(m, "exit1")

\* A report that fails on missing files only; C4 tells it from
\* ReportFindings.
ReportFindings_MissingOnly(c, n) ==
    Conclude(Report(Report(c.m, MissingHeading, c.missing), DriftedHeading, c.drifted),
             c.missing = <<>>, n)

ReportFindings(c, n) ==
    Conclude(Report(Report(c.m, MissingHeading, c.missing), DriftedHeading, c.drifted),
             c.missing = <<>> /\ c.drifted = <<>>, n)

\* A check that regenerates the theme directories before it compares; C5
\* tells it from cmd_check.
cmd_check_Regenerating(m) ==
    ReportFindings(Findings(SyncThemes(m, discover_themes(m))),
                   Len(discover_themes(m)))

cmd_check(m) == ReportFindings(Findings(m), Len(discover_themes(m)))

(***************************************************************************)
(* New                                                                     *)
(***************************************************************************)

Scaffold(name) ==
    <<"[server]", "\n", "enableStaticServing = true", "\n", "\n", "# ">>
        \o name \o <<" theme", "\n", "[theme]", "\n", "base = \"dark\"", "\n">>

\* A scaffold written whether or not the config exists; C8 tells it from
\* cmd_new.
cmd_new_Overwriting(m, name) ==
    Say(WriteText(m, ConfigPath(name), Scaffold(name)),
        <<"Created _configs/">> \o name
            \o <<".toml - edit it, then run 'python manage.py sync'">>)

cmd_new(m, name) ==
    LET config_path == ConfigPath(name)
    IN  IF Exists(m, config_path)
        THEN Stop(Warn(m, <<"Error: _configs/">> \o name \o <<".toml already exists">>),
                  "exit1")
        ELSE Say(WriteText(m, config_path, Scaffold(name)),
                 <<"Created _configs/">> \o name
                     \o <<".toml - edit it, then run 'python manage.py sync'">>)

(***************************************************************************)
(* CLI                                                                     *)
(***************************************************************************)

Usage == <<"Manage theme template directories (fully generated from _configs/).">>

A_sync == <<"s", "y", "n", "c">>
A_check == <<"c", "h", "e", "c", "k">>
A_new == <<"n", "e", "w">>
A_h == <<"-", "h">>
A_help == <<"-", "-", "h", "e", "l", "p">>

\* A command line without the existence checks; C12 tells it from main.
main_Unguarded(m, argv, answer) ==
    IF Len(argv) < 1 \/ argv[1] \in {A_h, A_help}
    THEN Stop(Say(m, Usage), IF Len(argv) > 0 THEN "exit0" ELSE "exit1")
    ELSE IF argv[1] = A_sync THEN cmd_sync(m, answer)
    ELSE IF argv[1] = A_new
         THEN IF Len(argv) < 2
              THEN Stop(Warn(m, <<"Usage: python manage.py new NAME">>), "exit1")
              ELSE cmd_new(m, argv[2])
    ELSE IF argv[1] = A_check THEN cmd_check(m)
    ELSE Stop(Warn(m, <<"Unknown command: ">> \o argv[1]), "exit1")

\* A command line that exits 0 after the usage text whatever the arguments;
\* C11 tells it from main.
main_UsageExitsZero(m, argv, answer) ==
    IF Len(argv) < 1 \/ argv[1] \in {A_h, A_help}
    THEN Stop(Say(m, Usage), "exit0")
    ELSE IF ~IsDir(m, SHARED)
         THEN Stop(Warn(m, <<"Error: ", "_shared", " not found">>), "exit1")
    ELSE IF ~IsDir(m, CONFIGS)
         THEN Stop(Warn(m, <<"Error: ", "_configs", " not found">>), "exit1")
    ELSE IF argv[1] = A_sync THEN cmd_sync(m, answer)
    ELSE IF argv[1] = A_new
         THEN IF Len(argv) < 2
              THEN Stop(Warn(m, <<"Usage: python manage.py new NAME">>), "exit1")
              ELSE cmd_new(m, argv[2])
    ELSE IF argv[1] = A_check THEN cmd_check(m)
    ELSE Stop(Warn(m, <<"Unknown command: ">> \o argv[1]), "exit1")

\* The __main__ block: argv is sys.argv[1:], answer what input() would read.
main(m, argv, answer) ==
    IF Len(argv) < 1 \/ argv[1] \in {A_h, A_help}
    THEN Stop(Say(m, Usage), IF Len(argv) > 0 THEN "exit0" ELSE "exit1")
    ELSE IF ~IsDir(m, SHARED)
         THEN Stop(Warn(m, <<"Error: ", "_shared", " not found">>), "exit1")
    ELSE IF ~IsDir(m, CONFIGS)
         THEN Stop(Warn(m, <<"Error: ", "_configs", " not found">>), "exit1")
    ELSE IF argv[1] = A_sync THEN cmd_sync(m, answer)
    ELSE IF argv[1] = A_new
         THEN IF Len(argv) < 2
              THEN Stop(Warn(m, <<"Usage: python manage.py new NAME">>), "exit1")
              ELSE cmd_new(m, argv[2])
    ELSE IF argv[1] = A_check THEN cmd_check(m)
    ELSE Stop(Warn(m, <<"Unknown command: ">> \o argv[1]), "exit1")

(***************************************************************************)
(* The trees a run starts from                                             *)
(***************************************************************************)

\* Bounds of the model.
MaxThemes == 2     \* config files in _configs
MaxDirs == 1       \* directories beside _shared, _templates and _configs
MaxHeaders == 1    \* managed-header lines in _shared/streamlit_app.py

Slug_a      == <<"a">>
Slug_a_b    == <<"a", "-", "b">>
Slug_github == <<"g", "i", "t", "h", "u", "b">>
Name_old    == <<"o", "l", "d">>
Name_notes  == <<"n", "o", "t", "e", "s", ".", "t", "x", "t">>
Name_manage == <<"m", "a", "n", "a", "g", "e", ".", "p", "y">>

\* The slugs configs are written for, and the names of the other entries of
\* the themes root.
SlugNames == {Slug_a, Slug_a_b, Slug_github}
OtherNames == {Name_old, Slug_a_b}

AppWithDocstring ==
    <<TripleQuote, "Element Explorer - ", "{{title}}", "\n", "Theme demo.", "\n",
      TripleQuote, "\n", "\n", "import streamlit as st", "\n",
      "st.title(\"", "{{title}}", "\")", "\n">>

AppWithoutDocstring ==
    <<"import streamlit as st", "\n", "st.title(\"", "{{title}}", "\")", "\n">>

PyprojectTmpl ==
    <<"[project]", "\n", "name = \"", "{{slug}}", "\"", "\n",
      "description = \"", "{{title}}", " theme\"", "\n">>

SnowflakeTmpl ==
    <<"identifier: ", "{{identifier}}", "\n", "title: ", "{{title}}", "\n",
      "main_file: ", "{{slug}}", "/streamlit_app.py", "\n">>

ConfigPlain == <<"[theme]", "\n", "base = \"light\"", "\n">>

ConfigWithFont(fname, ext) ==
    ConfigPlain \o <<"[[theme.fontFaces]]", "\n", "url", " ", "=", " ", "\"",
                     "app/static/">> \o fname \o <<".", ext, "\"", "\n">>

\* A config of two fonts: f2.woff2, then f1.ttf written url='...'.
ConfigTwoFonts ==
    ConfigWithFont(<<"f", "2">>, "woff2")
        \o <<"[[theme.fontFaces]]", "\n", "url", "=", "'", "app/static/",
              "f", "1", ".", "ttf", "'", "\n">>

\* A config without fonts, one whose font is in _shared/fonts, and one of
\* two fonts whose first is not in _shared/fonts and whose second is.
ConfigTexts ==
    {ConfigPlain, ConfigWithFont(<<"f", "1">>, "ttf"), ConfigTwoFonts}

FontName1 == <<"f", "1", ".", "ttf">>
FontName2 == <<"f", "2", ".", "woff2">>

GitattrUser == <<"*.png binary", "\n">>
GitattrStale ==
    GitattrUser \o <<GITATTR_START, "\n", "*/old linguist-generated", "\n",
                     GITATTR_END, "\n", "*.jpg binary", "\n">>

Stale == <<"edited by hand", "\n">>

\* The surroundings of the configs: the shared app, the templates, and
\* .gitattributes; each None when the file does not exist.
None == <<"<no file>">>

NormalEnv ==
    [app |-> AppWithDocstring, pyproject |-> PyprojectTmpl,
     snowflake |-> SnowflakeTmpl, gitattr |-> None]

\* Surroundings with no docstring in the app and a stale .gitattributes,
\* with no app, and with no snowflake template.
OddEnvs ==
    {[NormalEnv EXCEPT !.app = AppWithoutDocstring, !.gitattr = GitattrStale],
     [NormalEnv EXCEPT !.app = None, !.gitattr = GitattrUser],
     [NormalEnv EXCEPT !.snowflake = None]}

Put(m, p, text) == IF text = None THEN m ELSE WriteText(m, p, text)

RECURSIVE PutConfigs(_, _, _)
PutConfigs(m, cfg, slugs) ==
    IF slugs = <<>> THEN m
    ELSE PutConfigs(WriteText(m, ConfigPath(Head(slugs)), cfg[Head(slugs)]),
                    cfg, Tail(slugs))

EmptyRun(d, f) == [dirs |-> d, files |-> f, st |-> "run", out |-> <<>>, err |-> <<>>]

\* The tree before any theme directory: manage.py, _shared with the app and
\* one font, _templates, _configs with the configs cfg and one other file.
BaseTree(env, cfg) ==
    LET m0 == EmptyRun({ROOT, SHARED, TEMPLATES, CONFIGS, FONTS}, <<>>)
        m1 == WriteText(m0, ROOT \o <<Name_manage>>, <<"#!/usr/bin/env python3", "\n">>)
        m2 == Put(m1, SHARED \o <<N_app_py>>, env.app)
        m3 == WriteText(m2, FONTS \o <<FontName1>>, <<"font bytes 1">>)
        m4 == Put(m3, TEMPLATES \o <<N_pyproject_tmpl>>, env.pyproject)
        m5 == Put(m4, TEMPLATES \o <<N_snowflake_tmpl>>, env.snowflake)
        m6 == WriteText(m5, CONFIGS \o <<Name_notes>>, <<"notes", "\n">>)
        m7 == Put(m6, ROOT \o <<N_gitattributes>>, env.gitattr)
    IN  PutConfigs(m7, cfg, Sorted(DOMAIN cfg))

\* What the directory of a name holds when the run starts: "absent" is no
\* entry, "empty" a directory with nothing in it, "stale" a directory of
\* four hand-written files, "file" a regular file of that name; "synced"
\* is what sync_theme leaves, "edited" that with streamlit_app.py changed by
\* hand, "lost" that with snowflake.yml deleted.
Without(m, p) ==
    [m EXCEPT !.files = [q \in (DOMAIN @) \ {p} |-> @[q]]]

StaleFiles(m, name) ==
    WriteText(WriteText(WriteText(WriteText(m,
        ConfigFile(name), Stale), AppFile(name), Stale),
        PyprojectFile(name), Stale), SnowflakeFile(name), Stale)

Spoil(m, name, state) ==
    CASE state = "synced" -> m
      [] state = "edited" -> WriteText(m, AppFile(name), Stale)
      [] state = "lost" -> Without(m, SnowflakeFile(name))

PutDir(m, name, state) ==
    CASE state = "absent" -> m
      [] state = "empty" -> Mkdir(m, ROOT \o <<name>>)
      [] state = "stale" -> StaleFiles(MakeDirs(m, name), name)
      [] state = "file" -> WriteText(m, ROOT \o <<name>>, Stale)
      [] OTHER -> Spoil(sync_theme(m, [slug |-> name, title |-> slug_to_title(name)]),
                        name, state)

RECURSIVE PutDirs(_, _, _)
PutDirs(m, pre, names) ==
    IF names = <<>> THEN m
    ELSE PutDirs(PutDir(m, Head(names), pre[Head(names)]), pre, Tail(names))

\* A theme as the run finds it: the text of its config and the state of its
\* directory.  A config that references a font starts with no directory.
ThemeKinds ==
    {<<ConfigPlain, s>> : s \in {"absent", "stale", "synced", "edited", "lost"}}
    \cup {<<c, "absent">> : c \in ConfigTexts \ {ConfigPlain}}

OtherKinds == {"stale", "file"}

\* Where the app or a template is missing nothing has been synced yet.
OddThemeKinds == {<<ConfigPlain, "absent">>, <<ConfigPlain, "stale">>}

Subsets(S, n) == {T \in SUBSET S : Cardinality(T) <= n}

Fresh(m) == [m EXCEPT !.st = "run", !.out = <<>>, !.err = <<>>]

ThemeDirs(m, themes) ==
    PutDirs(m, [n \in DOMAIN themes |-> themes[n][2]], Sorted(DOMAIN themes))

StartTree(env, themes, others) ==
    Fresh(PutDirs(
        ThemeDirs(BaseTree(env, [n \in DOMAIN themes |-> themes[n][1]]), themes),
        others, Sorted(DOMAIN others)))

NoInput == <<"<no input>">>

\* No run yet.
NoRun == [argv |-> <<>>, answer |-> NoInput, st |-> "none", out |-> <<>>, err |-> <<>>]

\* `input` and `output` while no function is applied on its own.
Unused == <<"<unused>">>

StartFrom(m) ==
    /\ dirs = m.dirs
    /\ files = m.files
    /\ last = NoRun
    /\ input = Unused
    /\ output = Unused

StartsAs(env, themes, others) ==
    \E m \in {StartTree(env, themes, others)} : StartFrom(m)

\* The trees in which _shared or _configs is missing: the themes root as
\* checked out without one of them.
BrokenTrees ==
    {Fresh(Rmtree(BaseTree(NormalEnv, [n \in {Slug_a} |-> ConfigPlain]), d)) :
        d \in {SHARED, CONFIGS}}

Init ==
    \E cs \in Subsets(SlugNames, MaxThemes) :
    \E ds \in Subsets(OtherNames \ cs, MaxDirs) :
    \E others \in [ds -> OtherKinds] :
        \/ \E themes \in [cs -> ThemeKinds] : StartsAs(NormalEnv, themes, others)
        \/ \E env \in OddEnvs, themes \in [cs -> OddThemeKinds] :
               StartsAs(env, themes, others)
        \/ cs = {} /\ ds = {} /\ \E m \in BrokenTrees : StartFrom(m)

(***************************************************************************)
(* Runs of manage.py                                                       *)
(***************************************************************************)

Answers == {<<>>, <<"y">>, <<" ", "Y", " ">>, <<"n">>, <<"y", "e", "s">>}

NewNames == {Slug_a, N_shared}

\* Whether a run with these arguments reaches the prompt of cmd_sync.
Prompted(m) == \E i \in 1..Len(m.out) : m.out[i] = OrphanPrompt

\* python manage.py argv..., with `answer` on standard input.
Invoke(argv, answer) ==
    \E m \in {main(EmptyRun(dirs, files), argv, answer)} :
        /\ dirs' = m.dirs
        /\ files' = m.files
        /\ last' = [argv |-> argv,
                    answer |-> IF Prompted(m) THEN answer ELSE NoInput,
                    st |-> IF m.st = "run" THEN "ok" ELSE m.st,
                    out |-> m.out, err |-> m.err]

NumConfigs == Cardinality(GlobToml(EmptyRun(dirs, files)))

\* The managed-header lines of the shared app: none as written; a sync over
\* a config named _shared adds one.
NumHeaders ==
    LET app == ReadText(EmptyRun(dirs, files), SHARED \o <<N_app_py>>)
    IN  Cardinality({i \in 1..Len(app) : app[i] = MANAGED_HEADER_PY[1]})

Sync == \E answer \in Answers :
    /\ NumHeaders < MaxHeaders
    /\ Invoke(<<A_sync>>, answer)
    /\ UNCHANGED <<input, output>>

Check ==
    /\ Invoke(<<A_check>>, NoInput)
    /\ UNCHANGED <<input, output>>

New == \E name \in NewNames :
    /\ NumConfigs < MaxThemes \/ Exists(EmptyRun(dirs, files), ConfigPath(name))
    /\ Invoke(<<A_new, name>>, NoInput)
    /\ UNCHANGED <<input, output>>

Next == Sync \/ Check \/ New

Spec == Init /\ [][Next]_vars

(***************************************************************************)
(* slug_to_title applied on its own, to every short slug over a few        *)
(* characters and to the slugs of the documentation.                       *)
(***************************************************************************)

MaxLen == 3        \* characters of an enumerated slug

SlugChars == {"a", "B", "-", "_"}

Slug_solarized_light ==
    <<"s", "o", "l", "a", "r", "i", "z", "e", "d", "-", "l", "i", "g", "h", "t">>

SlugInputs ==
    UNION {[1..n -> SlugChars] : n \in 0..MaxLen}
    \cup {Slug_github, Slug_solarized_light, <<"G", "i", "t", "H", "u", "b">>}

InitTitle ==
    /\ input \in SlugInputs
    /\ output = Unused
    /\ dirs = {}
    /\ files = <<>>
    /\ last = NoRun

ApplyTitle ==
    /\ output = Unused
    /\ output' = slug_to_title(input)
    /\ UNCHANGED <<dirs, files, last, input>>

SpecTitle == InitTitle /\ [][ApplyTitle]_vars

(***************************************************************************)
(* manage.py called with no command, for help, with `new` alone, or with   *)
(* a word that is no command, over every tree a run starts from.           *)
(***************************************************************************)

A_build == <<"b", "u", "i", "l", "d">>
A_Sync == <<"S", "y", "n", "c">>

NoCommands == {A_build, A_Sync}

NoArguments ==
    /\ Invoke(<<>>, NoInput)
    /\ UNCHANGED <<input, output>>

Help == \E flag \in {A_h, A_help} :
    /\ Invoke(<<flag>>, NoInput)
    /\ UNCHANGED <<input, output>>

NewWithoutName ==
    /\ Invoke(<<A_new>>, NoInput)
    /\ UNCHANGED <<input, output>>

UnknownCommand == \E cmd \in NoCommands :
    /\ Invoke(<<cmd>>, NoInput)
    /\ UNCHANGED <<input, output>>

NextCli == NoArguments \/ Help \/ NewWithoutName \/ UnknownCommand

SpecCli == Init /\ [][NextCli]_vars

(***************************************************************************)
(* expected_app applied on its own, to every shared app of a few lines:    *)
(* one-line and two-line docstrings, statements, comments and blank lines, *)
(* with and without a newline at the end of the file.                      *)
(***************************************************************************)

MaxLines == 3      \* lines of an enumerated shared app

AppLines ==
    {<<TripleQuote, "Explorer - ", "{{title}}", TripleQuote>>,
     <<TripleQuote, "Explorer">>,
     <<"{{title}}", " demo.", TripleQuote>>,
     <<"st.title(\"", "{{title}}", "\")">>,
     <<"#", " note">>,
     <<>>}

AppSources ==
    UNION {{Join(ls, <<"\n">>) \o end : ls \in [1..n -> AppLines], end \in {<<>>, <<"\n">>}} :
              n \in 1..MaxLines}

AppTitles == {<<"A">>, <<"G", "i", "t", "H", "u", "b">>}

\* A themes root that holds the shared app and nothing else.
AppTree(source) ==
    EmptyRun({ROOT, SHARED}, [p \in {SHARED \o <<N_app_py>>} |-> source])

InitApp ==
    /\ input \in [source : AppSources, title : AppTitles]
    /\ output = Unused
    /\ dirs = {}
    /\ files = <<>>
    /\ last = NoRun

ApplyApp ==
    /\ output = Unused
    /\ output' = expected_app(AppTree(input.source), input.title)
    /\ UNCHANGED <<dirs, files, last, input>>

SpecApp == InitApp /\ [][ApplyApp]_vars

(***************************************************************************)
(* update_gitattributes applied on its own, to a themes root without       *)
(* .gitattributes and to every short .gitattributes made of user lines,    *)
(* newlines and the two markers.                                           *)
(***************************************************************************)

MaxAttrs == 4      \* atoms of an enumerated .gitattributes

GitattrAtoms ==
    {"*.png binary", "\n", GITATTR_START, GITATTR_END, "*/old linguist-generated"}

GitattrInputs == {None} \cup UNION {[1..n -> GitattrAtoms] : n \in 0..MaxAttrs}

\* A themes root that holds .gitattributes, if any, and nothing else.
GitattrTree(content) ==
    Put(EmptyRun({ROOT}, <<>>), ROOT \o <<N_gitattributes>>, content)

InitGitattr ==
    /\ input \in GitattrInputs
    /\ output = Unused
    /\ dirs = {}
    /\ files = <<>>
    /\ last = NoRun

\* The content of .gitattributes after the update, Raised if it raised.
ApplyGitattr ==
    /\ output = Unused
    /\ \E m \in {update_gitattributes(GitattrTree(input))} :
           output' = IF m.st = "run" THEN m.files[ROOT \o <<N_gitattributes>>]
                     ELSE Raised
    /\ UNCHANGED <<dirs, files, last, input>>

SpecGitattr == InitGitattr /\ [][ApplyGitattr]_vars

(***************************************************************************)
(* Properties                                                              *)
(***************************************************************************)

\* The tree as it is, and as the step leaves it.
Tree == EmptyRun(dirs, files)

SyncCompleted == last.argv = <<A_sync>> /\ last.st = "ok"
CheckReported == last.argv = <<A_check>> /\ last.st \in {"ok", "exit1"}

\* The step is a run of `check` that got to cmd_check (both _shared and
\* _configs are there) and through it without an exception.
ChecksTree ==
    /\ last'.argv = <<A_check>>
    /\ last'.st \in {"ok", "exit1"}
    /\ IsDir(Tree, SHARED) /\ IsDir(Tree, CONFIGS)

\* The four generated files of a theme: path, the label a report gives it,
\* and the content expected for it in tree m.
Generated(m, theme) ==
    {[path |-> ConfigFile(theme.slug),
      label |-> theme.slug \o <<"/.streamlit/config.toml">>,
      expected |-> expected_config(m, theme.slug)],
     [path |-> AppFile(theme.slug),
      label |-> theme.slug \o <<"/streamlit_app.py">>,
      expected |-> expected_app(m, theme.title)],
     [path |-> PyprojectFile(theme.slug),
      label |-> theme.slug \o <<"/pyproject.toml">>,
      expected |-> expected_pyproject(m, theme)],
     [path |-> SnowflakeFile(theme.slug),
      label |-> theme.slug \o <<"/snowflake.yml">>,
      expected |-> expected_snowflake(m, theme)]}

AllGenerated(m) ==
    UNION {Generated(m, discover_themes(m)[i]) : i \in 1..Len(discover_themes(m))}

InSync(m, g) ==
    IsFile(m, g.path) /\ g.expected # Raised /\ m.files[g.path] = g.expected

\* The labels a report lists under a heading: the indented lines that follow
\* it, up to the next line that is not indented.
ListedUnder(out, heading) ==
    {Tail(out[k]) : k \in {j \in 1..Len(out) :
        \E h \in 1..(j - 1) :
            /\ out[h] = heading
            /\ \A x \in (h + 1)..j : out[x] # <<>> /\ Head(out[x]) = "  "}}

\* C1: after a completed sync, the four generated files of every theme
\* discovered from _configs/*.toml exist and equal the content expected from
\* the current config, shared app and templates.
C1_GeneratedEqualsTemplate ==
    SyncCompleted => \A g \in AllGenerated(Tree) : InSync(Tree, g)

\* C2: a check run right after a completed sync, with nothing changed in
\* between, reports no missing and no drifted file and does not exit 1.
C2_CheckAfterSyncIsClean ==
    [][(SyncCompleted /\ last'.argv = <<A_check>>) =>
          /\ last'.st = "ok"
          /\ \A i \in 1..Len(last'.out) :
                 last'.out[i] \notin {MissingHeading, DriftedHeading}]_vars

\* C3: a check lists each generated file of each discovered theme under
\* 'Missing files' exactly when it does not exist, under 'Drifted files'
\* exactly when it exists with a content other than the expected one, and
\* nowhere when it exists with the expected content.
C3_CheckClassifies ==
    [][ChecksTree =>
          \A g \in AllGenerated(Tree) :
              /\ g.label \in ListedUnder(last'.out, MissingHeading)
                     <=> ~Exists(Tree, g.path)
              /\ g.label \in ListedUnder(last'.out, DriftedHeading)
                     <=> (IsFile(Tree, g.path) /\ files[g.path] # g.expected)
              /\ InSync(Tree, g) =>
                     \A i \in 1..Len(last'.out) : last'.out[i] # <<"  ">> \o g.label]_vars

\* A check has reported a tree with a missing, a drifted and an in-sync
\* generated file.
C3_Witness ==
    /\ CheckReported
    /\ \E g \in AllGenerated(Tree) : ~Exists(Tree, g.path)
    /\ \E g \in AllGenerated(Tree) : IsFile(Tree, g.path) /\ files[g.path] = Stale
    /\ \E g \in AllGenerated(Tree) : InSync(Tree, g)

\* The fonts the configs of tree m reference, as [slug, fname].
FontRefs(m) ==
    UNION {{[slug |-> discover_themes(m)[i].slug, fname |-> f] :
               f \in {discover_fonts(ReadText(m, ConfigPath(discover_themes(m)[i].slug)))[k] :
                         k \in 1..Len(discover_fonts(
                             ReadText(m, ConfigPath(discover_themes(m)[i].slug))))}} :
           i \in 1..Len(discover_themes(m))}

\* Some file cmd_check looks for is missing or drifted in tree m.
OutOfSync(m) ==
    \/ \E g \in AllGenerated(m) : ~InSync(m, g)
    \/ \E r \in FontRefs(m) :
           \/ ~Exists(m, StaticDir(r.slug) \o <<r.fname>>)
           \/ /\ Exists(m, FONTS \o <<r.fname>>)
              /\ ReadText(m, FONTS \o <<r.fname>>)
                     # ReadText(m, StaticDir(r.slug) \o <<r.fname>>)

\* C4: cmd_check calls sys.exit(1) exactly when a file it looks for is
\* missing or drifted; otherwise it prints the one line 'All generated files
\* in sync across N theme directories.', N the number of themes, and returns.
C4_ExitOneIffOutOfSync ==
    [][ChecksTree =>
          /\ last'.st = "exit1" <=> OutOfSync(Tree)
          /\ last'.st = "ok" =>
                 last'.out = <<InSyncLine(Len(discover_themes(Tree)))>>]_vars

\* A check of two themes has exited 1 with nothing missing and one file
\* drifted.
C4_Witness ==
    /\ last.argv = <<A_check>> /\ last.st = "exit1"
    /\ Len(discover_themes(Tree)) = 2
    /\ ListedUnder(last.out, MissingHeading) = {}
    /\ Cardinality(ListedUnder(last.out, DriftedHeading)) = 1

\* C5: a check creates, changes and deletes nothing, whatever it reports,
\* and a check that follows a check gives the same report.
C5_CheckOnlyVerifies ==
    [][last'.argv = <<A_check>> =>
          /\ dirs' = dirs
          /\ files' = files
          /\ last.argv = <<A_check>> => last' = last]_vars

\* A check has listed missing files in a tree that has a theme directory.
C5_Witness ==
    /\ last.argv = <<A_check>> /\ last.st = "exit1"
    /\ ListedUnder(last.out, MissingHeading) # {}
    /\ \E g \in AllGenerated(Tree) : IsDir(Tree, Parent(g.path))

\* The lines '  Synced <slug>/' of a sync's output, in the order printed.
SyncedSlugs(out) ==
    LET lines == SelectSeq(out, LAMBDA l : l # <<>> /\ Head(l) = "  Synced ")
    IN  [i \in 1..Len(lines) |-> SubSeq(lines[i], 2, Len(lines[i]) - 1)]

\* The names directly inside _configs that end in .toml.
TomlNames == {n \in Children(Tree, CONFIGS) : EndsWith(n, DotToml)}

\* C6: discover_themes gives one theme per *.toml entry of _configs, its slug
\* the file name without .toml and its title slug_to_title(slug), in
\* increasing order of file name, whether or not a directory of that name
\* exists; a completed sync has gone through the themes in that order.
C6_DiscoverThemes ==
    LET themes == discover_themes(Tree)
    IN  /\ Len(themes) = Cardinality(TomlNames)
        /\ \A n \in TomlNames : \E i \in 1..Len(themes) : themes[i].slug \o DotToml = n
        /\ \A i \in 1..Len(themes) :
               /\ themes[i].slug \o DotToml \in TomlNames
               /\ themes[i].title = slug_to_title(themes[i].slug)
        /\ \A i, j \in 1..Len(themes) :
               i < j => StrLess(themes[i].slug \o DotToml, themes[j].slug \o DotToml)
        /\ SyncCompleted =>
               SyncedSlugs(last.out) = [i \in 1..Len(themes) |-> themes[i].slug]

\* A check has gone through the themes a-b and a, in that order, in a tree
\* where a has no directory and the directory old has no config.
C6_Witness ==
    /\ CheckReported
    /\ IsDir(Tree, SHARED) /\ IsDir(Tree, CONFIGS)
    /\ Len(discover_themes(Tree)) = 2
    /\ discover_themes(Tree)[1].slug = Slug_a_b
    /\ discover_themes(Tree)[2].slug = Slug_a
    /\ ~Exists(Tree, ROOT \o <<Slug_a>>)
    /\ IsDir(Tree, ROOT \o <<Name_old>>)
    /\ Name_old \notin Slugs(discover_themes(Tree))

\* C7: for github the title is GitHub; for any other slug the title has the
\* slug's length, a space for each '-', the upper case of each character that
\* begins the slug or follows a '-', and the lower case of every other one.
C7_SlugToTitle ==
    output # Unused =>
        IF input = Slug_github
        THEN output = <<"G", "i", "t", "H", "u", "b">>
        ELSE /\ Len(output) = Len(input)
             /\ \A i \in 1..Len(input) :
                    output[i] = IF input[i] = "-" THEN " "
                                ELSE IF i = 1 \/ input[i - 1] = "-"
                                     THEN Upper(input[i])
                                     ELSE Lower(input[i])

\* solarized-light has been given the title Solarized Light.
C7_Witness ==
    /\ input = Slug_solarized_light
    /\ output = <<"S", "o", "l", "a", "r", "i", "z", "e", "d", " ",
                  "L", "i", "g", "h", "t">>

\* The step is a run of `new NAME` that got to cmd_new.
RunsNew ==
    /\ Len(last'.argv) = 2 /\ last'.argv[1] = A_new
    /\ IsDir(Tree, SHARED) /\ IsDir(Tree, CONFIGS)

Contains(text, atom) == \E i \in 1..Len(text) : text[i] = atom

\* C8: `new NAME` with _configs/NAME.toml present prints an error, exits 1
\* and changes nothing; without it, it returns normally having created that
\* one file, with the scaffold content, and no directory.
C8_NewNeverOverwrites ==
    [][RunsNew =>
          IF Exists(Tree, ConfigPath(last'.argv[2]))
          THEN /\ last'.st = "exit1"
               /\ last'.err # <<>>
               /\ dirs' = dirs
               /\ files' = files
          ELSE /\ last'.st = "ok"
               /\ dirs' = dirs
               /\ DOMAIN files' = DOMAIN files \cup {ConfigPath(last'.argv[2])}
               /\ \A q \in DOMAIN files : files'[q] = files[q]
               /\ files'[ConfigPath(last'.argv[2])] = Scaffold(last'.argv[2])
               /\ \A a \in {"[server]", "enableStaticServing = true",
                            "[theme]", "base = \"dark\""} :
                      Contains(files'[ConfigPath(last'.argv[2])], a)]_vars

\* `new a` has exited 1 on an a.toml that is not the scaffold, and a.toml is
\* still not the scaffold.
C8_Witness ==
    /\ last.argv = <<A_new, Slug_a>>
    /\ last.st = "exit1"
    /\ IsDir(Tree, SHARED) /\ IsDir(Tree, CONFIGS)
    /\ IsFile(Tree, ConfigPath(Slug_a))
    /\ files[ConfigPath(Slug_a)] # Scaffold(Slug_a)

\* The orphaned directories of tree m: the directories directly under the
\* root whose name does not begin with '_' and has no config.
OrphanDirs(m) ==
    {d \in Children(m, ROOT) :
        /\ IsDir(m, ROOT \o <<d>>)
        /\ Head(d) # "_"
        /\ ~Exists(m, CONFIGS \o <<d \o DotToml>>)}

\* What a step has removed.
Removed == (dirs \ dirs') \cup (DOMAIN files \ DOMAIN files')

\* C9: a sync removes something only if the prompt was answered and the
\* answer, stripped and lower-cased, is 'y'; the prompt is shown only if
\* there are orphans, and a sync that completes has shown it if there are.
C9_RemovalNeedsConfirmation ==
    [][last'.argv = <<A_sync>> =>
          /\ Removed # {} =>
                 /\ last'.answer # NoInput
                 /\ LowerStr(Strip(last'.answer)) = <<"y">>
          /\ last'.answer # NoInput => OrphanDirs(Tree) # {}
          /\ (last'.st = "ok" /\ OrphanDirs(Tree) # {}) => last'.answer # NoInput]_vars

\* A sync has removed old/ on the answer ' Y '.
C9_Witness ==
    /\ last.argv = <<A_sync>>
    /\ last.answer = <<" ", "Y", " ">>
    /\ Contains(last.out, <<"  Removed ">> \o Name_old \o <<"/">>)
    /\ ~Exists(Tree, ROOT \o <<Name_old>>)

\* C10: the directories a sync lists before its prompt are the orphaned
\* directories; whatever the answer, all it removes lies in one of them, so
\* _shared, _templates, _configs and the directories of the slugs stay.
C10_OnlyOrphansOffered ==
    [][last'.argv = <<A_sync>> =>
          /\ last'.answer # NoInput =>
                 ListedUnder(last'.out, OrphanHeading)
                     = {d \o <<"/">> : d \in OrphanDirs(Tree)}
          /\ \A p \in Removed : \E d \in OrphanDirs(Tree) : Under(p, <<d>>)
          /\ \A d \in {SHARED, TEMPLATES, CONFIGS} : d \in dirs => d \in dirs'
          /\ \A n \in TomlNames : <<Stem(n)>> \in dirs => <<Stem(n)>> \in dirs']_vars

\* A sync has listed old/ alone, removed it on the answer 'y', and left the
\* directory of the slug a, which was there before, in place.
C10_Witness ==
    /\ last.argv = <<A_sync>>
    /\ last.answer = <<"y">>
    /\ ListedUnder(last.out, OrphanHeading) = {Name_old \o <<"/">>}
    /\ ~Exists(Tree, ROOT \o <<Name_old>>)
    /\ IsDir(Tree, ROOT \o <<Slug_a>>)
    /\ IsDir(Tree, SHARED) /\ IsDir(Tree, TEMPLATES) /\ IsDir(Tree, CONFIGS)

\* What the existence checks of __main__ print for tree m, <<>> if they pass.
GuardError(m) ==
    IF ~IsDir(m, SHARED) THEN <<<<"Error: ", "_shared", " not found">>>>
    ELSE IF ~IsDir(m, CONFIGS) THEN <<<<"Error: ", "_configs", " not found">>>>
    ELSE <<>>

\* The step ran manage.py with these arguments.
Ran(argv) == last' # last /\ last'.argv = argv

\* A run with no argument or for help: the usage text, the given status,
\* nothing on stderr and the tree as it was.
UsageShown(st) ==
    /\ last'.st = st
    /\ last'.out = <<Usage>> /\ last'.err = <<>>
    /\ dirs' = dirs /\ files' = files

\* A run rejected with one line on stderr, status 1 and the tree as it was.
Rejected(err) ==
    /\ last'.st = "exit1"
    /\ last'.out = <<>> /\ last'.err = err
    /\ dirs' = dirs /\ files' = files

\* C11 as stated: no argument prints the usage and exits 1, -h and --help
\* print it and exit 0, `new` alone exits 1, and a word that is no command
\* exits 1 with 'Unknown command'; the tree is never touched.
C11_AsStated ==
    [][/\ Ran(<<>>) => UsageShown("exit1")
       /\ \A flag \in {A_h, A_help} : Ran(<<flag>>) => UsageShown("exit0")
       /\ Ran(<<A_new>>) => last'.st = "exit1" /\ dirs' = dirs /\ files' = files
       /\ \A cmd \in NoCommands :
              Ran(<<cmd>>) => Rejected(<<<<"Unknown command: ">> \o cmd>>)]_vars

\* C11 with the existence checks taken into account: `new` alone and a word
\* that is no command are rejected with 'Usage: python manage.py new NAME'
\* and 'Unknown command: <word>' where _shared and _configs exist, and with
\* the error of the existence check where one of them is missing.
C11_BadInvocationsRejected ==
    [][/\ Ran(<<>>) => UsageShown("exit1")
       /\ \A flag \in {A_h, A_help} : Ran(<<flag>>) => UsageShown("exit0")
       /\ Ran(<<A_new>>) =>
              Rejected(IF GuardError(Tree) # <<>> THEN GuardError(Tree)
                       ELSE <<<<"Usage: python manage.py new NAME">>>>)
       /\ \A cmd \in NoCommands :
              Ran(<<cmd>>) =>
                  Rejected(IF GuardError(Tree) # <<>> THEN GuardError(Tree)
                           ELSE <<<<"Unknown command: ">> \o cmd>>)]_vars

\* `build` has been rejected as an unknown command in a tree with the
\* directory of a theme.
C11_Witness ==
    /\ last.argv = <<A_build>>
    /\ last.st = "exit1"
    /\ last.err = <<<<"Unknown command: ">> \o A_build>>
    /\ \E n \in SlugNames : IsDir(Tree, ROOT \o <<n>>)

\* C12: where _shared or _configs is not a directory, `sync`, `check` and
\* `new NAME` print the error of the existence check, exit 1 and leave the
\* tree as it was.
C12_ExistenceGuards ==
    [][(/\ GuardError(Tree) # <<>>
        /\ last' # last
        /\ \/ last'.argv \in {<<A_sync>>, <<A_check>>}
           \/ Len(last'.argv) = 2 /\ last'.argv[1] = A_new)
          => Rejected(GuardError(Tree))]_vars

\* A sync has been refused in a tree without _shared that holds a config
\* and no directory for it.
C12_Witness ==
    /\ last.argv = <<A_sync>>
    /\ last.st = "exit1"
    /\ last.err = <<<<"Error: ", "_shared", " not found">>>>
    /\ ~Exists(Tree, SHARED)
    /\ IsFile(Tree, ConfigPath(Slug_a))
    /\ ~Exists(Tree, ROOT \o <<Slug_a>>)

\* The shared app of the input with the title in place of {{title}}.
Substituted == Replace(input.source, "{{title}}", input.title)

\* The body with the managed header put in after its first k atoms.
HeaderAt(body, k) ==
    SubSeq(body, 1, k) \o MANAGED_HEADER_PY \o SubSeq(body, k + 1, Len(body))

\* The positions at which line e of the body ends with a newline: one, or
\* none when line e is the last line and has no newline.
EndOfLine(body, e) ==
    {k \in 1..Len(body) :
        /\ body[k] = "\n"
        /\ Cardinality({j \in 1..k : body[j] = "\n"}) = e}

NumHeaders_In(text) ==
    Cardinality({i \in 1..Len(text) : text[i] = MANAGED_HEADER_PY[1]})

ExpectedAppBuilt == output \notin {Unused, Raised}

\* C13 as stated: the result is the substituted source with the one header
\* line put in directly after the last line of the docstring, or in front
\* when there is no docstring, so that taking the header line out gives the
\* substituted source back.
C13_AsStated ==
    ExpectedAppBuilt =>
        /\ \A i \in 1..Len(output) : output[i] # "{{title}}"
        /\ NumHeaders_In(output) = NumHeaders_In(Substituted) + 1
        /\ IF DocstringEnd(Substituted) = 0
           THEN output = HeaderAt(Substituted, 0)
           ELSE \E k \in EndOfLine(Substituted, DocstringEnd(Substituted)) :
                    output = HeaderAt(Substituted, k)

\* C13 with the source that ends in its docstring taken into account: when
\* the last line of the docstring is the last line of the source and has no
\* newline, the result is the substituted source, a newline, and the header
\* line; in every other case it is as stated.
C13_HeaderAfterDocstring ==
    ExpectedAppBuilt =>
        /\ \A i \in 1..Len(output) : output[i] # "{{title}}"
        /\ NumHeaders_In(output) = NumHeaders_In(Substituted) + 1
        /\ IF DocstringEnd(Substituted) = 0
           THEN output = HeaderAt(Substituted, 0)
           ELSE IF EndOfLine(Substituted, DocstringEnd(Substituted)) = {}
                THEN output = Substituted \o <<"\n">> \o MANAGED_HEADER_PY
                ELSE \E k \in EndOfLine(Substituted, DocstringEnd(Substituted)) :
                         output = HeaderAt(Substituted, k)

\* The header has been put between a two-line docstring that holds the
\* title and the statement that follows it.
C13_Witness ==
    /\ ExpectedAppBuilt
    /\ input.title = <<"G", "i", "t", "H", "u", "b">>
    /\ DocstringEnd(Substituted) = 2
    /\ \E k \in EndOfLine(Substituted, 2) :
           /\ Head(input.source) = TripleQuote
           /\ output = HeaderAt(Substituted, k)
           /\ output[k - 1] = TripleQuote
           /\ \E i \in (k + 1)..Len(output) : output[i] = "st.title(\""

\* The step is a sync that got to cmd_sync.
RunsSync ==
    /\ last'.argv = <<A_sync>>
    /\ IsDir(Tree, SHARED) /\ IsDir(Tree, CONFIGS)

\* The shared app and the two templates are there to read.
SourcesThere ==
    /\ IsFile(Tree, SHARED \o <<N_app_py>>)
    /\ IsFile(Tree, TEMPLATES \o <<N_pyproject_tmpl>>)
    /\ IsFile(Tree, TEMPLATES \o <<N_snowflake_tmpl>>)

\* C14: a sync that has its sources finishes normally whatever fonts the
\* configs reference; a sync that finishes has copied every referenced font
\* found in _shared/fonts to <slug>/static/ and has, for every one not
\* found, warned on stderr and created nothing; stderr holds nothing else.
C14_FontsCopiedByReference ==
    [][RunsSync =>
          /\ SourcesThere => last'.st = "ok"
          /\ last'.st = "ok" =>
                 /\ \A r \in FontRefs(Tree) :
                        IF Exists(Tree, FONTS \o <<r.fname>>)
                        THEN /\ StaticDir(r.slug) \o <<r.fname>> \in DOMAIN files'
                             /\ files'[StaticDir(r.slug) \o <<r.fname>>]
                                    = files[FONTS \o <<r.fname>>]
                        ELSE /\ Contains(last'.err, FontWarning(r.slug, r.fname))
                             /\ StaticDir(r.slug) \o <<r.fname>> \notin DOMAIN files'
                 /\ \A i \in 1..Len(last'.err) :
                        \E r \in FontRefs(Tree) :
                            /\ ~Exists(Tree, FONTS \o <<r.fname>>)
                            /\ last'.err[i] = FontWarning(r.slug, r.fname)]_vars

\* A sync of two themes has warned about f2.woff2 for the first, copied
\* f1.ttf for it all the same, synced the second and finished.
C14_Witness ==
    /\ SyncCompleted
    /\ Len(last.err) = 1
    /\ \E r \in FontRefs(Tree) :
           /\ r.fname = FontName2
           /\ last.err = <<FontWarning(r.slug, FontName2)>>
           /\ ~Exists(Tree, StaticDir(r.slug) \o <<FontName2>>)
           /\ IsFile(Tree, StaticDir(r.slug) \o <<FontName1>>)
           /\ Len(SyncedSlugs(last.out)) = 2
           /\ SyncedSlugs(last.out)[1] = r.slug

\* The positions of a marker in a text.
MarkerAt(text, marker) == {i \in 1..Len(text) : text[i] = marker}

\* The managed sections of a text: a BEGIN marker and the first END marker
\* behind it, as <<begin, end>>.
Sections(text) ==
    {<<b, e>> \in MarkerAt(text, GITATTR_START) \X MarkerAt(text, GITATTR_END) :
        b < e /\ \A x \in MarkerAt(text, GITATTR_END) : x > b => e <= x}

\* C15: without .gitattributes the update creates it with the managed
\* section; with one that holds a managed section it leaves the text before
\* BEGIN and behind END as it was and the file holds the section once; with
\* one that holds none it appends the section to the text.
C15_OnlyManagedSection ==
    (output # Unused) =>
        /\ output # Raised
        /\ input = None => output = NewSection \o <<"\n">>
        /\ (input # None /\ Sections(input) # {}) =>
               /\ \E se \in Sections(input) :
                      output = SubSeq(input, 1, se[1] - 1) \o NewSection
                                   \o SubSeq(input, se[2] + 1, Len(input))
               /\ Cardinality(MarkerAt(output, GITATTR_START)) = 1
               /\ Cardinality(MarkerAt(output, GITATTR_END)) = 1
        /\ (input # None /\ Sections(input) = {}) =>
               /\ StartsWith(output, RStrip(input))
               /\ EndsWith(output, NewSection \o <<"\n">>)
               /\ Cardinality(MarkerAt(output, GITATTR_START)) = 1

=============================================================================
